---- MODULE Spec2Model ----
(***************************************************************************)
(* A model of zmtools/api.py: the loading animation (run_with_loading,     *)
(* loading_animation, _show_loading_animation), working_directory, picker  *)
(* and strip_each_line.  Each function has its own specification           *)
(* (SpecRun, SpecWD, SpecPicker, SpecStrip); the variables of the other    *)
(* functions stay at their idle values.                                    *)
(***************************************************************************)
EXTENDS Integers, Sequences, FiniteSets, TLC

VARIABLES
    \* ---- run_with_loading / loading_animation
    entry,             \* the function being called
    function,          \* what the Operation (or the with-body) does when run
    evaluate_function, \* the evaluator passed in ("None" when absent)
    raise_exc,         \* the raise_exc argument
    bar_length,        \* the bar_length argument
    pc,                \* the caller's position in the function
    output,            \* local `output`
    c,                 \* local `c`, the marker to print
    succeded,          \* local `succeded`
    raised_exc,        \* local `raised_exc`
    exc,               \* local `exc` of loading_animation
    pending,           \* an exception propagating through loading_animation's finally
    p,                 \* the animation Process
    console,           \* the terminal: the completed lines and the current line
    events,            \* what the caller has done so far, in order
    outcome,           \* what the call handed to its caller
    first,             \* what the run_with_loading call did, kept for the comparison
    \* ---- working_directory
    cwd,               \* the process working directory
    scopes,            \* the active working_directory scopes, innermost last
    inflight,          \* the error propagating out of a body ("none" when none)
    lastExit,          \* what the most recent scope exit did
    caller_exc,        \* the last error that reached the outermost caller
    \* ---- picker
    items,             \* the list passed to picker
    typed,             \* the text the user types at the prompt
    pk_pc,             \* picker's position
    printed,           \* the menu lines printed
    prompted,          \* whether input() was called
    choice_index,      \* local `choice_index`
    pk_result,         \* what picker returned or raised
    \* ---- strip_each_line
    s,                 \* the argument of strip_each_line
    strip_pc,          \* "call" before the call, "done" after
    strip_result       \* the returned string

runVars == << entry, function, evaluate_function, raise_exc, bar_length, pc, output,
              c, succeded, raised_exc, exc, pending, p, console, events, outcome, first >>
wdVars == << cwd, scopes, inflight, lastExit, caller_exc >>
pickerVars == << items, typed, pk_pc, printed, prompted, choice_index, pk_result >>
stripVars == << s, strip_pc, strip_result >>
notRun == << wdVars, pickerVars, stripVars >>
notWD == << runVars, pickerVars, stripVars >>
notPicker == << runVars, wdVars, stripVars >>
notStrip == << runVars, wdVars, pickerVars >>
vars == << runVars, wdVars, pickerVars, stripVars >>

(***************************************************************************)
(* Bounds of the model.                                                    *)
(***************************************************************************)
MaxBarLength == 2
MaxDepth == 3
MaxItems == 3
MaxTyped == 2
MaxLen == 3

(***************************************************************************)
(* Python objects: a class name, an integer payload (the value of an int   *)
(* or a bool) and, for an exception, the callable that raised it.          *)
(***************************************************************************)
PyInt(n) == [cls |-> "int", val |-> n, by |-> ""]
PyBool(b) == [cls |-> "bool", val |-> IF b THEN 1 ELSE 0, by |-> ""]
PyNone == [cls |-> "NoneType", val |-> 0, by |-> ""]
PyExc(cls, by) == [cls |-> cls, val |-> 0, by |-> by]

\* The classes that `except Exception` catches; KeyboardInterrupt derives from
\* BaseException only.
ExceptionClasses == {"ValueError", "KeyError"}
IsException(obj) == obj.cls \in ExceptionClasses

\* bool(obj) as `if` applies it.
Truthy(obj) ==
    CASE obj.cls \in {"int", "bool"} -> obj.val # 0
      [] obj.cls = "NoneType" -> FALSE
      [] OTHER -> TRUE

Returns(obj) == [act |-> "return", obj |-> obj]
Raises(obj) == [act |-> "raise", obj |-> obj]

\* The Operations tried: return 0, return 1, raise ValueError, be interrupted.
Functions ==
    { Returns(PyInt(0)), Returns(PyInt(1)),
      Raises(PyExc("ValueError", "function")),
      Raises(PyExc("KeyboardInterrupt", "function")) }

\* The evaluators tried: none, lambda x: x, lambda x: x == 0, one that raises.
Evaluators == {"None", "identity", "is_zero", "raises"}

ApplyEvaluator(ev, x) ==
    CASE ev = "identity" -> Returns(x)
      [] ev = "is_zero" -> Returns(PyBool(x.val = 0))
      [] OTHER -> Raises(PyExc("KeyError", "evaluate_function"))

completed_success_string == "success_glyph"
completed_failure_string == "failure_glyph"

(***************************************************************************)
(* The terminal.  sys.stdout is line buffered on a terminal and a write    *)
(* holding "\r" is flushed at once, so every write of the animation and of *)
(* the caller reaches the screen when it is made.  A frame and the status  *)
(* line both start at column 0 and replace what the line showed.           *)
(***************************************************************************)
Blank == [kind |-> "blank", i |-> 0, glyph |-> ""]
Frame(i) == [kind |-> "frame", i |-> i, glyph |-> ""]
Status(glyph) == [kind |-> "status", i |-> 0, glyph |-> glyph]

NewProcess == [state |-> "initial", sigterm |-> FALSE, pc |-> "write", i |-> 0]

NoOutcome == [kind |-> "pending", value |-> PyNone, flag |-> FALSE]
NoFirst == [done |-> FALSE, events |-> << >>, outcome |-> NoOutcome]

\* Process.start(): the child runs _show_loading_animation from its first line.
StartProcess(proc) == [proc EXCEPT !.state = "started"]

\* Process.terminate(): os.kill(pid, SIGTERM).  It does not wait for the child.
TerminateProcess(proc) ==
    IF proc.state = "started" THEN [proc EXCEPT !.sigterm = TRUE] ELSE proc

(***************************************************************************)
(* _show_loading_animation, the child process.                             *)
(***************************************************************************)
Running == p.state = "started"

\* sys.stdout.write of the frame for the current i
AnimWrite ==
    /\ Running /\ p.pc = "write"
    /\ console' = [console EXCEPT !.cur = Frame(p.i)]
    /\ p' = [p EXCEPT !.pc = "sleep"]
    /\ UNCHANGED << entry, function, evaluate_function, raise_exc, bar_length, pc,
                    output, c, succeded, raised_exc, exc, pending, events, outcome, first, notRun >>

\* time.sleep(0.15); a process with SIGTERM pending does not come back from it
AnimSleep ==
    /\ Running /\ p.pc = "sleep" /\ ~p.sigterm
    /\ p' = [p EXCEPT !.pc = "flush"]
    /\ UNCHANGED << entry, function, evaluate_function, raise_exc, bar_length, pc,
                    output, c, succeded, raised_exc, exc, pending, console, events,
                    outcome, first, notRun >>

\* sys.stdout.flush(), then the next i of range(bar_length), or the next round
\* of `while True`
AnimFlush ==
    /\ Running /\ p.pc = "flush"
    /\ p' = [p EXCEPT !.pc = "write",
                      !.i = IF p.i + 1 < bar_length THEN p.i + 1 ELSE 0]
    /\ UNCHANGED << entry, function, evaluate_function, raise_exc, bar_length, pc,
                    output, c, succeded, raised_exc, exc, pending, console, events,
                    outcome, first, notRun >>

\* SIGTERM is delivered: the child ends, wherever it is
AnimKilled ==
    /\ Running /\ p.sigterm
    /\ p' = [p EXCEPT !.state = "dead"]
    /\ UNCHANGED << entry, function, evaluate_function, raise_exc, bar_length, pc,
                    output, c, succeded, raised_exc, exc, pending, console, events,
                    outcome, first, notRun >>

(***************************************************************************)
(* run_with_loading, the caller's process.                                 *)
(***************************************************************************)
InRun == entry = "run_with_loading"

\* p = Process(...); p.daemon = True; p.start()
RunStart ==
    /\ InRun /\ pc = "start"
    /\ p' = StartProcess(p)
    /\ events' = Append(events, "start")
    /\ pc' = "call"
    /\ UNCHANGED << entry, function, evaluate_function, raise_exc, bar_length,
                    output, c, succeded, raised_exc, exc, pending, console, outcome, first, notRun >>

\* output = function(*args, **kwargs), and `except Exception` when it raises.
\* An exception that is no Exception leaves run_with_loading from here.
RunCall ==
    /\ InRun /\ pc = "call"
    /\ IF function.act = "return"
       THEN /\ output' = function.obj
            /\ events' = Append(events, "call")
            /\ pc' = "evaluate"
            /\ UNCHANGED << c, succeded, raised_exc, outcome >>
       ELSE IF IsException(function.obj)
       THEN /\ output' = function.obj
            /\ c' = completed_failure_string
            /\ succeded' = FALSE
            /\ raised_exc' = TRUE
            /\ events' = Append(events, "call")
            /\ pc' = "terminate"
            /\ UNCHANGED outcome
       ELSE /\ outcome' = [kind |-> "raised", value |-> function.obj, flag |-> FALSE]
            /\ events' = events \o << "call", "raise" >>
            /\ pc' = "done"
            /\ UNCHANGED << output, c, succeded, raised_exc >>
    /\ UNCHANGED << entry, function, evaluate_function, raise_exc, bar_length,
                    exc, pending, p, console, first, notRun >>

\* if evaluate_function is None or evaluate_function(output): ... else: ...
\* inside the same try, so an Exception of the evaluator is caught as well
RunEvaluate ==
    /\ InRun /\ pc = "evaluate"
    /\ LET r == ApplyEvaluator(evaluate_function, output) IN
       IF evaluate_function = "None" \/ (r.act = "return" /\ Truthy(r.obj))
       THEN /\ c' = completed_success_string
            /\ succeded' = TRUE
            /\ raised_exc' = FALSE
            /\ UNCHANGED output
       ELSE IF r.act = "return"
       THEN /\ c' = completed_failure_string
            /\ succeded' = FALSE
            /\ raised_exc' = FALSE
            /\ UNCHANGED output
       ELSE /\ output' = r.obj
            /\ c' = completed_failure_string
            /\ succeded' = FALSE
            /\ raised_exc' = TRUE
    /\ pc' = "terminate"
    /\ UNCHANGED << entry, function, evaluate_function, raise_exc, bar_length,
                    exc, pending, p, console, events, outcome, first, notRun >>

\* p.terminate()
RunTerminate ==
    /\ InRun /\ pc = "terminate"
    /\ p' = TerminateProcess(p)
    /\ events' = Append(events, "terminate")
    /\ pc' = "write"
    /\ UNCHANGED << entry, function, evaluate_function, raise_exc, bar_length,
                    output, c, succeded, raised_exc, exc, pending, console, outcome, first, notRun >>

\* sys.stdout.write(f"\33[2K\r{phrase} {c}")
RunWrite ==
    /\ InRun /\ pc = "write"
    /\ console' = [console EXCEPT !.cur = Status(c)]
    /\ events' = Append(events, c)
    /\ pc' = "print"
    /\ UNCHANGED << entry, function, evaluate_function, raise_exc, bar_length,
                    output, c, succeded, raised_exc, exc, pending, p, outcome, first, notRun >>

\* print()
RunPrint ==
    /\ InRun /\ pc = "print"
    /\ console' = [lines |-> Append(console.lines, console.cur), cur |-> Blank]
    /\ events' = Append(events, "newline")
    /\ pc' = "finish"
    /\ UNCHANGED << entry, function, evaluate_function, raise_exc, bar_length,
                    output, c, succeded, raised_exc, exc, pending, p, outcome, first, notRun >>

\* if raised_exc and raise_exc: raise output
\* return output, succeded
RunFinish ==
    /\ InRun /\ pc = "finish"
    /\ IF raised_exc /\ raise_exc
       THEN /\ outcome' = [kind |-> "raised", value |-> output, flag |-> FALSE]
            /\ events' = Append(events, "raise")
       ELSE /\ outcome' = [kind |-> "returned", value |-> output, flag |-> succeded]
            /\ events' = Append(events, "return")
    /\ pc' = "done"
    /\ UNCHANGED << entry, function, evaluate_function, raise_exc, bar_length,
                    output, c, succeded, raised_exc, exc, pending, p, console, first, notRun >>

(***************************************************************************)
(* loading_animation, the context manager, around the same body.           *)
(***************************************************************************)
InWith == entry = "loading_animation"

\* p = Process(...); p.daemon = True; p.start(); exc = None; c = completed_failure_string
WithStart ==
    /\ InWith /\ pc = "start"
    /\ p' = StartProcess(p)
    /\ exc' = PyNone
    /\ c' = completed_failure_string
    /\ events' = Append(events, "start")
    /\ pc' = "call"
    /\ UNCHANGED << entry, function, evaluate_function, raise_exc, bar_length,
                    output, succeded, raised_exc, pending, console, outcome, first, notRun >>

\* try: yield; c = completed_success_string / except Exception as e: exc = e.
\* An exception that is no Exception goes on to the finally block and beyond.
WithBody ==
    /\ InWith /\ pc = "call"
    /\ IF function.act = "return"
       THEN /\ c' = completed_success_string
            /\ UNCHANGED << exc, pending >>
       ELSE IF IsException(function.obj)
       THEN /\ exc' = function.obj
            /\ UNCHANGED << c, pending >>
       ELSE /\ pending' = function.obj
            /\ UNCHANGED << c, exc >>
    /\ events' = Append(events, "call")
    /\ pc' = "terminate"
    /\ UNCHANGED << entry, function, evaluate_function, raise_exc, bar_length,
                    output, succeded, raised_exc, p, console, outcome, first, notRun >>

\* finally: p.terminate()
WithTerminate ==
    /\ InWith /\ pc = "terminate"
    /\ p' = TerminateProcess(p)
    /\ events' = Append(events, "terminate")
    /\ pc' = "write"
    /\ UNCHANGED << entry, function, evaluate_function, raise_exc, bar_length,
                    output, c, succeded, raised_exc, exc, pending, console, outcome,
                    first, notRun >>

\* sys.stdout.write(f"\33[2K\r{phrase} {c}")
WithWrite ==
    /\ InWith /\ pc = "write"
    /\ console' = [console EXCEPT !.cur = Status(c)]
    /\ events' = Append(events, c)
    /\ pc' = "print"
    /\ UNCHANGED << entry, function, evaluate_function, raise_exc, bar_length,
                    output, c, succeded, raised_exc, exc, pending, p, outcome, first, notRun >>

\* print()
WithPrint ==
    /\ InWith /\ pc = "print"
    /\ console' = [lines |-> Append(console.lines, console.cur), cur |-> Blank]
    /\ events' = Append(events, "newline")
    /\ pc' = "finish"
    /\ UNCHANGED << entry, function, evaluate_function, raise_exc, bar_length,
                    output, c, succeded, raised_exc, exc, pending, p, outcome, first, notRun >>

\* if exc: raise exc -- and the end of the finally block, where an exception
\* that was not caught goes on to the caller
WithFinish ==
    /\ InWith /\ pc = "finish"
    /\ IF Truthy(exc)
       THEN /\ outcome' = [kind |-> "raised", value |-> exc, flag |-> FALSE]
            /\ events' = Append(events, "raise")
       ELSE IF pending # PyNone
       THEN /\ outcome' = [kind |-> "raised", value |-> pending, flag |-> FALSE]
            /\ events' = Append(events, "raise")
       ELSE /\ outcome' = [kind |-> "returned", value |-> PyNone, flag |-> TRUE]
            /\ events' = Append(events, "return")
    /\ pc' = "done"
    /\ UNCHANGED << entry, function, evaluate_function, raise_exc, bar_length,
                    output, c, succeded, raised_exc, exc, pending, p, console, first, notRun >>

\* The same body under `with loading_animation(phrase, bar_length, ...)`, in a
\* fresh process on a fresh terminal, once the run_with_loading call is over.
WithCall ==
    /\ InRun /\ pc = "done"
    /\ first' = [done |-> TRUE, events |-> events, outcome |-> outcome]
    /\ entry' = "loading_animation"
    /\ pc' = "start"
    /\ output' = PyNone
    /\ c' = ""
    /\ succeded' = FALSE
    /\ raised_exc' = FALSE
    /\ exc' = PyNone
    /\ pending' = PyNone
    /\ p' = NewProcess
    /\ console' = [lines |-> << >>, cur |-> Blank]
    /\ events' = << >>
    /\ outcome' = NoOutcome
    /\ UNCHANGED << function, evaluate_function, raise_exc, bar_length, notRun >>

(***************************************************************************)
(* Idle values of each function's variables.                               *)
(***************************************************************************)
IdleRun ==
    /\ entry = "none" /\ function = Returns(PyNone) /\ evaluate_function = "None"
    /\ raise_exc = TRUE /\ bar_length = 1 /\ pc = "idle"
    /\ output = PyNone /\ c = "" /\ succeded = FALSE /\ raised_exc = FALSE
    /\ exc = PyNone /\ pending = PyNone /\ p = NewProcess
    /\ console = [lines |-> << >>, cur |-> Blank]
    /\ events = << >> /\ outcome = NoOutcome /\ first = NoFirst

\* run_with_loading(function, phrase, bar_length, ..., evaluate_function, raise_exc)
\* is called; nothing is bound yet.
InitRunVars ==
    /\ entry = "run_with_loading"
    /\ function \in Functions
    /\ evaluate_function \in Evaluators
    /\ raise_exc \in BOOLEAN
    /\ bar_length \in 1..MaxBarLength
    /\ pc = "start"
    /\ output = PyNone /\ c = "" /\ succeded = FALSE /\ raised_exc = FALSE
    /\ exc = PyNone /\ pending = PyNone /\ p = NewProcess
    /\ console = [lines |-> << >>, cur |-> Blank]
    /\ events = << >> /\ outcome = NoOutcome /\ first = NoFirst

(***************************************************************************)
(* working_directory.  A directory is the sequence of names leading to it  *)
(* from the root; a path is absolute or relative to the working directory. *)
(***************************************************************************)
Dirs == { << >>, << "a" >>, << "a", "b" >> }

ENOENT == << "ENOENT" >>

AbsPath(parts) == [abs |-> TRUE, parts |-> parts]
RelPath(parts) == [abs |-> FALSE, parts |-> parts]

\* The paths tried: every directory by its absolute path, one that does not
\* exist, and relative ones.
Paths ==
    { AbsPath(d) : d \in Dirs } \cup { AbsPath(<< "x" >>) } \cup
    { RelPath(<< ".." >>), RelPath(<< "." >>), RelPath(<< "b" >>),
      RelPath(<< "..", "..", "a" >>) }

RECURSIVE Walk(_, _)
Walk(dir, parts) ==
    IF parts = << >> THEN dir
    ELSE LET h == Head(parts)
             nxt == IF h = ".."
                    THEN (IF dir = << >> THEN dir ELSE SubSeq(dir, 1, Len(dir) - 1))
                    ELSE IF h = "." THEN dir ELSE Append(dir, h)
         IN  IF nxt \in Dirs THEN Walk(nxt, Tail(parts)) ELSE ENOENT

\* Where os.chdir(path) leads from directory `from`, or ENOENT
Resolve(from, path) == Walk(IF path.abs THEN << >> ELSE from, path.parts)

\* os.getcwd(): the absolute path of the working directory
GetCwd == AbsPath(cwd)

\* lastExit: the directory before the scope was entered, the one its body left
\* behind, the one after the exit, the nesting depth of the scope, the error
\* leaving the body and the error handed on to the enclosing body or the caller
NoExit == [happened |-> FALSE, before |-> << >>, left |-> << >>, after |-> << >>,
           depth |-> 0, raised |-> "none", delivered |-> "none"]

\* The mutant: the restore written after the yield, without try/finally.
RestoredUnlessError(owd, err) == IF err = "none" THEN Resolve(cwd, owd) ELSE cwd

\* finally: os.chdir(owd) -- the working directory once the scope is left,
\* whether an error `err` is leaving the body or not
Restored(owd, err) == Resolve(cwd, owd)

\* owd = os.getcwd(); os.chdir(path); try: yield
\* os.chdir raises before the try when the path does not lead to a directory
WDEnter(path) ==
    /\ inflight = "none" /\ Len(scopes) < MaxDepth
    /\ LET owd == GetCwd
           target == Resolve(cwd, path)
       IN  IF target = ENOENT
           THEN /\ IF scopes = << >>
                   THEN caller_exc' = "FileNotFoundError" /\ UNCHANGED inflight
                   ELSE inflight' = "FileNotFoundError" /\ UNCHANGED caller_exc
                /\ UNCHANGED << cwd, scopes >>
           ELSE /\ cwd' = target
                /\ scopes' = Append(scopes, [owd |-> owd, before |-> cwd])
                /\ UNCHANGED << inflight, caller_exc >>
    /\ UNCHANGED << lastExit, notWD >>

\* the body, at the yield, changes the directory itself
WDBodyChdir(path) ==
    /\ inflight = "none" /\ scopes # << >>
    /\ Resolve(cwd, path) # ENOENT
    /\ cwd' = Resolve(cwd, path)
    /\ UNCHANGED << scopes, inflight, lastExit, caller_exc, notWD >>

\* the body, at the yield, raises
WDBodyRaise ==
    /\ inflight = "none" /\ scopes # << >>
    /\ inflight' = "RuntimeError"
    /\ UNCHANGED << cwd, scopes, lastExit, caller_exc, notWD >>

\* The innermost scope is left: the finally block runs and what was raised,
\* if anything, goes on to the enclosing body, or to the caller of the
\* outermost scope.
LeaveScope ==
    LET frame == scopes[Len(scopes)]
        rest == SubSeq(scopes, 1, Len(scopes) - 1)
        back == Restored(frame.owd, inflight)
    IN  /\ scopes' = rest
        /\ cwd' = IF back = ENOENT THEN cwd ELSE back
        /\ LET err == IF back = ENOENT THEN "FileNotFoundError" ELSE inflight IN
           /\ IF rest = << >>
              THEN /\ inflight' = "none"
                   /\ caller_exc' = IF err = "none" THEN caller_exc ELSE err
              ELSE /\ inflight' = err
                   /\ UNCHANGED caller_exc
           /\ lastExit' = [happened |-> TRUE, before |-> frame.before, left |-> cwd,
                           after |-> cwd', depth |-> Len(scopes), raised |-> inflight,
                           delivered |-> IF rest = << >> THEN caller_exc' ELSE inflight']
        /\ UNCHANGED notWD

\* the body ends normally
WDExitNormal == scopes # << >> /\ inflight = "none" /\ LeaveScope

\* the body ends by an error
WDExitError == scopes # << >> /\ inflight # "none" /\ LeaveScope

IdleWD ==
    /\ cwd = << >> /\ scopes = << >> /\ inflight = "none"
    /\ lastExit = NoExit /\ caller_exc = "none"

InitWDVars ==
    /\ cwd \in Dirs /\ scopes = << >> /\ inflight = "none"
    /\ lastExit = NoExit /\ caller_exc = "none"

(***************************************************************************)
(* picker.  The typed text is a sequence of characters; int() is modelled  *)
(* by what it accepts: an optional sign, then one or more digits.          *)
(***************************************************************************)
ItemValues == {"x", "y", "z"}
TypedChars == {"-", "0", "1", "2", "3", "a"}
Digits == {"0", "1", "2", "3"}

SeqsUpTo(S, n) == UNION { [1..k -> S] : k \in 0..n }

DigitVal(ch) == CASE ch = "0" -> 0 [] ch = "1" -> 1 [] ch = "2" -> 2 [] OTHER -> 3

RECURSIVE DigitsValue(_)
DigitsValue(ds) ==
    IF ds = << >> THEN 0
    ELSE DigitsValue(SubSeq(ds, 1, Len(ds) - 1)) * 10 + DigitVal(ds[Len(ds)])

\* int(text): [ok |-> FALSE] stands for ValueError
ParseInt(text) ==
    LET neg == text # << >> /\ text[1] = "-"
        ds == IF neg THEN Tail(text) ELSE text
    IN  IF ds # << >> /\ \A k \in 1..Len(ds) : ds[k] \in Digits
        THEN [ok |-> TRUE, n |-> IF neg THEN 0 - DigitsValue(ds) ELSE DigitsValue(ds)]
        ELSE [ok |-> FALSE, n |-> 0]

\* list[k] with Python's 0-based index, a negative k counting from the end;
\* [ok |-> FALSE] stands for IndexError
GetItem(list, k) ==
    IF 0 <= k /\ k < Len(list) THEN [ok |-> TRUE, item |-> list[k + 1]]
    ELSE IF k < 0 /\ 0 - Len(list) <= k THEN [ok |-> TRUE, item |-> list[Len(list) + k + 1]]
    ELSE [ok |-> FALSE, item |-> ""]

PkPending == [kind |-> "pending", item |-> "", cls |-> ""]
PkReturned(item) == [kind |-> "returned", item |-> item, cls |-> ""]
PkRaised(cls) == [kind |-> "raised", item |-> "", cls |-> cls]

\* if not items: raise ValueError(f"Not a single {item_name} to pick from")
PickerEmpty ==
    /\ pk_pc = "start" /\ items = << >>
    /\ pk_result' = PkRaised("ValueError")
    /\ pk_pc' = "done"
    /\ UNCHANGED << items, typed, printed, prompted, choice_index, notPicker >>

\* elif len(items) == 1: return items[0]
PickerSingle ==
    /\ pk_pc = "start" /\ Len(items) = 1
    /\ pk_result' = PkReturned(GetItem(items, 0).item)
    /\ pk_pc' = "done"
    /\ UNCHANGED << items, typed, printed, prompted, choice_index, notPicker >>

\* for index, item in enumerate(items, start=1): print(f"{index}) {item}")
PickerMenu ==
    /\ pk_pc = "start" /\ Len(items) > 1
    /\ printed' = [k \in 1..Len(items) |-> [index |-> k, item |-> items[k]]]
    /\ pk_pc' = "input"
    /\ UNCHANGED << items, typed, prompted, choice_index, pk_result, notPicker >>

\* try: choice_index = int(input(...)) / except ValueError: raise ValueError("Invalid input")
PickerInput ==
    /\ pk_pc = "input"
    /\ prompted' = TRUE
    /\ IF ParseInt(typed).ok
       THEN /\ choice_index' = ParseInt(typed).n
            /\ pk_pc' = "index"
            /\ UNCHANGED pk_result
       ELSE /\ pk_result' = PkRaised("ValueError")
            /\ pk_pc' = "done"
            /\ UNCHANGED choice_index
    /\ UNCHANGED << items, typed, printed, notPicker >>

\* return items[choice_index - 1]
PickerReturn ==
    /\ pk_pc = "index"
    /\ LET got == GetItem(items, choice_index - 1) IN
       pk_result' = IF got.ok THEN PkReturned(got.item) ELSE PkRaised("IndexError")
    /\ pk_pc' = "done"
    /\ UNCHANGED << items, typed, printed, prompted, choice_index, notPicker >>

IdlePicker ==
    /\ items = << >> /\ typed = << >> /\ pk_pc = "idle" /\ printed = << >>
    /\ prompted = FALSE /\ choice_index = 0 /\ pk_result = PkPending

InitPickerVars ==
    /\ items \in SeqsUpTo(ItemValues, MaxItems)
    /\ typed \in SeqsUpTo(TypedChars, MaxTyped)
    /\ pk_pc = "start" /\ printed = << >> /\ prompted = FALSE
    /\ choice_index = 0 /\ pk_result = PkPending

(***************************************************************************)
(* strip_each_line.  A string is the sequence of its characters.           *)
(***************************************************************************)
Chars == {"a", "b", " ", "\n"}
Whitespace == {" ", "\n"}

RECURSIVE LStrip(_)
LStrip(str) ==
    IF str # << >> /\ Head(str) \in Whitespace THEN LStrip(Tail(str)) ELSE str

RECURSIVE RStrip(_)
RStrip(str) ==
    IF str # << >> /\ str[Len(str)] \in Whitespace
    THEN RStrip(SubSeq(str, 1, Len(str) - 1)) ELSE str

\* str.strip()
Strip(str) == RStrip(LStrip(str))

\* sep.join(list)
RECURSIVE Join(_, _)
Join(sep, list) ==
    IF list = << >> THEN << >>
    ELSE IF Len(list) = 1 THEN list[1]
    ELSE list[1] \o sep \o Join(sep, Tail(list))

\* [line.strip() for line in s]: iterating a str yields its characters
StrippedParts(str) == [k \in 1..Len(str) |-> Strip(<< str[k] >>)]

\* return "\n".join([line.strip() for line in s])
StripEachLine ==
    /\ strip_pc = "call"
    /\ strip_result' = Join(<< "\n" >>, StrippedParts(s))
    /\ strip_pc' = "done"
    /\ UNCHANGED << s, notStrip >>

IdleStrip == s = << >> /\ strip_pc = "idle" /\ strip_result = << >>

InitStripVars == s \in SeqsUpTo(Chars, MaxLen) /\ strip_pc = "call" /\ strip_result = << >>

(***************************************************************************)
(* The specifications.                                                     *)
(***************************************************************************)
InitRun == InitRunVars /\ IdleWD /\ IdlePicker /\ IdleStrip

NextRun ==
    \/ RunStart \/ RunCall \/ RunEvaluate \/ RunTerminate \/ RunWrite \/ RunPrint
    \/ RunFinish
    \/ WithCall \/ WithStart \/ WithBody \/ WithTerminate \/ WithWrite \/ WithPrint
    \/ WithFinish
    \/ AnimWrite \/ AnimSleep \/ AnimFlush \/ AnimKilled

SpecRun == InitRun /\ [][NextRun]_vars

InitWD == IdleRun /\ InitWDVars /\ IdlePicker /\ IdleStrip

NextWD ==
    \/ \E path \in Paths : WDEnter(path)
    \/ \E path \in Paths : WDBodyChdir(path)
    \/ WDBodyRaise
    \/ WDExitNormal
    \/ WDExitError

SpecWD == InitWD /\ [][NextWD]_vars

InitPicker == IdleRun /\ IdleWD /\ InitPickerVars /\ IdleStrip

NextPicker == PickerEmpty \/ PickerSingle \/ PickerMenu \/ PickerInput \/ PickerReturn

SpecPicker == InitPicker /\ [][NextPicker]_vars

InitStrip == IdleRun /\ IdleWD /\ IdlePicker /\ InitStripVars

NextStrip == StripEachLine

SpecStrip == InitStrip /\ [][NextStrip]_vars

(***************************************************************************)
(* The claims.                                                             *)
(***************************************************************************)
Glyphs == {completed_success_string, completed_failure_string}

\* C1: every finished run_with_loading call has done, in this order and once
\* each: start the animation, call the Operation, terminate the animation,
\* write the status line (the marker, then the newline), return or raise.
C1_EventsInOrder ==
    (InRun /\ pc = "done") =>
        \E g \in Glyphs, e \in {"return", "raise"} :
            events = << "start", "call", "terminate", g, "newline", e >>

\* C2: once run_with_loading has written the status line, the animation writes
\* no frame: the status line is the last thing drawn on its line of the
\* terminal, first as the current line and, after the newline, as the one
\* completed line with nothing drawn after it.
C2_StatusLineStays ==
    /\ (InRun /\ pc = "print") => console.cur = Status(c)
    /\ (InRun /\ pc \in {"finish", "done"} /\ console.lines # << >>) =>
           (console.lines = << Status(c) >> /\ console.cur = Blank)

\* C3: when the Operation raises, raise_exc alone decides: with raise_exc the
\* same error reaches the caller after the failure glyph was written, without
\* raise_exc the call returns (the error, False).
C3_RaiseExcDecides ==
    (InRun /\ pc = "done" /\ function.act = "raise") =>
        IF raise_exc
        THEN /\ outcome.kind = "raised"
             /\ outcome.value = function.obj
             /\ \E k \in 1..Len(events) : events[k] = completed_failure_string
        ELSE outcome = [kind |-> "returned", value |-> function.obj, flag |-> FALSE]

\* C4: when the Operation returns normally, the pair run_with_loading returns
\* holds the Operation's return value and a flag that is True without an
\* evaluator and the truth value of evaluate_function(return value) with one,
\* and the marker written is the success glyph exactly when the flag is True.
C4_ReturnedPair ==
    (InRun /\ pc = "done" /\ function.act = "return" /\ outcome.kind = "returned") =>
        LET r == ApplyEvaluator(evaluate_function, function.obj) IN
        /\ evaluate_function = "None" => outcome.flag
        /\ (evaluate_function # "None" /\ r.act = "return") => (outcome.flag = Truthy(r.obj))
        /\ outcome.value = function.obj
        /\ console.lines # << >>
        /\ outcome.flag <=> (c = completed_success_string)
        /\ ~outcome.flag <=> (c = completed_failure_string)
        /\ \E k \in 1..Len(events) : events[k] = c

\* C5: an error that run_with_loading raises, or captures as the failed
\* outcome, was raised by the Operation and by nothing else.
C5_OnlyOperationErrors ==
    (InRun /\ pc = "done") =>
        /\ outcome.kind = "raised" => outcome.value.by = "function"
        /\ (outcome.kind = "returned" /\ raised_exc) => outcome.value.by = "function"

\* C6: when a working_directory scope is left, normally or by an error, at any
\* nesting depth, the working directory is the one that was current just
\* before that scope was entered, and an error leaving the body goes on
\* unchanged after the restore.
C6_DirectoryRestored ==
    lastExit.happened =>
        /\ lastExit.after = lastExit.before
        /\ lastExit.raised # "none" => lastExit.delivered = lastExit.raised

\* C6 is reached: a nested scope has been left by an error of its body, from a
\* directory other than the one current before it was entered.
C6_Witness ==
    /\ lastExit.happened
    /\ lastExit.raised = "RuntimeError"
    /\ lastExit.depth >= 2
    /\ lastExit.left # lastExit.before

\* C7: on two or more items an item is returned only for an integer n in
\* 1..len(items), and it is items[n-1]; any other integer fails with
\* IndexError and a text that is no integer fails with ValueError.
C7_OnlyMenuNumbers ==
    (pk_pc = "done" /\ Len(items) >= 2) =>
        LET r == ParseInt(typed)
            inRange == r.ok /\ 1 <= r.n /\ r.n <= Len(items)
        IN  /\ pk_result.kind = "returned" => (inRange /\ pk_result.item = items[r.n])
            /\ (r.ok /\ ~inRange) => pk_result = PkRaised("IndexError")
            /\ ~r.ok => pk_result = PkRaised("ValueError")

\* C8: on an empty list picker fails with IndexError (not the ValueError of a
\* text that is no number), on a single item it returns that item, and in
\* both cases nothing is printed and nothing is read.
C8_EmptyAndSingle ==
    (pk_pc = "done" /\ Len(items) <= 1) =>
        /\ printed = << >>
        /\ ~prompted
        /\ items = << >> => pk_result = PkRaised("IndexError")
        /\ Len(items) = 1 => pk_result = PkReturned(items[1])

\* s.split("\n")
RECURSIVE SplitLines(_)
SplitLines(str) ==
    IF \A k \in 1..Len(str) : str[k] # "\n" THEN << str >>
    ELSE LET at == CHOOSE k \in 1..Len(str) :
                       str[k] = "\n" /\ \A j \in 1..(k - 1) : str[j] # "\n"
         IN  << SubSeq(str, 1, at - 1) >> \o SplitLines(SubSeq(str, at + 1, Len(str)))

\* C9: strip_each_line(s) is the lines of s, split at the newlines, each
\* stripped of its leading and trailing whitespace, joined by one newline.
C9_LinesStripped ==
    strip_pc = "done" =>
        strip_result =
            Join(<< "\n" >>, [k \in 1..Len(SplitLines(s)) |-> Strip(SplitLines(s)[k])])

\* C10: with no evaluator and raise_exc, run_with_loading and loading_animation
\* around the same body do the same things in the same order and hand the
\* caller the same error, however the body ends.
C10_SameAsContextManager ==
    (InWith /\ pc = "done" /\ first.done /\ evaluate_function = "None" /\ raise_exc) =>
        /\ first.events = events
        /\ first.outcome.kind = outcome.kind
        /\ outcome.kind = "raised" => first.outcome.value = outcome.value

(***************************************************************************)
(* What does hold of run_with_loading: the statements above, kept to the   *)
(* runs in which the Operation is not left by an exception outside         *)
(* Exception and the evaluator returns.                                    *)
(***************************************************************************)
Interrupted == function.act = "raise" /\ ~IsException(function.obj)

EventsInOrderUnlessInterrupted ==
    (InRun /\ pc = "done" /\ ~Interrupted) =>
        \E g \in Glyphs, e \in {"return", "raise"} :
            events = << "start", "call", "terminate", g, "newline", e >>

RaiseExcDecidesForExceptions ==
    (InRun /\ pc = "done" /\ function.act = "raise" /\ ~Interrupted) =>
        IF raise_exc
        THEN /\ outcome.kind = "raised"
             /\ outcome.value = function.obj
             /\ \E k \in 1..Len(events) : events[k] = completed_failure_string
        ELSE outcome = [kind |-> "returned", value |-> function.obj, flag |-> FALSE]

ReturnedPairWhenEvaluatorReturns ==
    (InRun /\ pc = "done" /\ function.act = "return" /\ evaluate_function # "raises") =>
        LET r == ApplyEvaluator(evaluate_function, function.obj) IN
        /\ outcome.kind = "returned"
        /\ outcome.flag = (evaluate_function = "None" \/ Truthy(r.obj))
        /\ outcome.value = function.obj
        /\ outcome.flag <=> (c = completed_success_string)
        /\ ~outcome.flag <=> (c = completed_failure_string)
        /\ \E k \in 1..Len(events) : events[k] = c

SameAsContextManagerUnlessInterrupted ==
    (InWith /\ pc = "done" /\ first.done /\ evaluate_function = "None" /\ raise_exc
        /\ ~Interrupted) =>
        /\ first.events = events
        /\ first.outcome.kind = outcome.kind
        /\ outcome.kind = "raised" => first.outcome.value = outcome.value

====
